---- MODULE Spec2Model ----
(***************************************************************************)
(* QueueClip: the line queue (queue_manager.py), the clipboard monitor     *)
(* (clipboard_monitor.py) and the hotkey paste cycle (main.py).            *)
(*                                                                         *)
(* A Python str is modelled as a sequence of one-character strings, so     *)
(* that split, strip and replace are computed and not assumed.             *)
(***************************************************************************)
EXTENDS Integers, Sequences, FiniteSets, TLC

\* ------------------------------------------------------------------ bounds

\* longest text handed to load_text in SpecQM
MaxTextLen == 3
\* most pop_next calls counted after one load in SpecQM
MaxPops == 3
\* most restore timers pending at once in Spec
MaxTimers == 2
\* most paste_triggered emissions waiting in the UI event loop
MaxTriggers == 1
\* the processes launched in SpecRun
NumProcs == 3

\* --------------------------------------------------------------- Python str

\* Optional[str]: None is a one-element sequence whose element is no character
None == <<"None">>

\* the characters str.strip() removes (those of the model's alphabet)
Whitespace == {" ", "\n", "\r", "\t"}

\* the alphabet of the texts of SpecQM
Chars == {"a", ",", "\n", "\r"}

\* sep occurs in s at index i
MatchAt(s, sep, i) ==
    /\ i >= 1
    /\ i + Len(sep) - 1 <= Len(s)
    /\ SubSeq(s, i, i + Len(sep) - 1) = sep

\* sep in s: sep occurs somewhere in s
Occurs(sep, s) == \E i \in 1..Len(s) : MatchAt(s, sep, i)

\* str.find: the least index at which sep occurs in s, 0 if none
Find(s, sep) ==
    LET hits == {i \in 1..Len(s) : MatchAt(s, sep, i)}
    IN  IF hits = {} THEN 0 ELSE CHOOSE i \in hits : \A j \in hits : i <= j

RECURSIVE PySplit(_, _)
\* str.split(sep) for a non-empty sep: cut at each leftmost occurrence
PySplit(s, sep) ==
    LET i == Find(s, sep)
    IN  IF i = 0
        THEN <<s>>
        ELSE <<SubSeq(s, 1, i - 1)>> \o PySplit(SubSeq(s, i + Len(sep), Len(s)), sep)

RECURSIVE PyReplace(_, _, _)
\* str.replace(old, new) for a non-empty old
PyReplace(s, old, new) ==
    LET i == Find(s, old)
    IN  IF i = 0
        THEN s
        ELSE SubSeq(s, 1, i - 1) \o new
                 \o PyReplace(SubSeq(s, i + Len(old), Len(s)), old, new)

RECURSIVE PyLStrip(_)
PyLStrip(s) ==
    IF s # <<>> /\ Head(s) \in Whitespace THEN PyLStrip(Tail(s)) ELSE s

RECURSIVE PyRStrip(_)
PyRStrip(s) ==
    IF s # <<>> /\ s[Len(s)] \in Whitespace
    THEN PyRStrip(SubSeq(s, 1, Len(s) - 1))
    ELSE s

\* str.strip()
PyStrip(s) == PyRStrip(PyLStrip(s))

\* str.count('\n')
CountNewlines(s) == Cardinality({i \in 1..Len(s) : s[i] = "\n"})

\* ------------------------------------------------------------ QueueManager

DELIMITER_NEWLINE == <<"\n">>
DELIMITER_COMMA == <<",">>
DELIMITER_TAB == <<"\t">>
DELIMITER_SEMICOLON == <<";">>

RECURSIVE StripAndFilter(_)
\* [line.strip() for line in lines if line.strip()]
StripAndFilter(lines) ==
    IF lines = <<>>
    THEN <<>>
    ELSE LET t == PyStrip(Head(lines))
         IN  (IF t # <<>> THEN <<t>> ELSE <<>>) \o StripAndFilter(Tail(lines))

\* mutant: the lines are filtered but not stripped
SplitLinesNoStrip(text, delim) ==
    SelectSeq(PySplit(text, delim), LAMBDA line : PyStrip(line) # <<>>)

\* load_text, lines 63-70: the lines that a text yields under a delimiter
SplitLines(text, delim) ==
    StripAndFilter(
        IF delim = DELIMITER_NEWLINE
        THEN PySplit(PyReplace(text, <<"\r", "\n">>, <<"\n">>), <<"\n">>)
        ELSE PySplit(text, delim))

\* the signals one operation emits, in order, are a sequence of signal names;
\* every operation answers [queue, original_queue, ret, emitted]

\* load_text, lines 54-75 (the delimiter argument is applied by the caller's
\* action below, as delimiter')
LoadText(text, delim) ==
    LET lines == SplitLines(text, delim)
    IN  [queue |-> lines, original_queue |-> lines,
         count |-> Len(lines), emitted |-> <<"queue_changed">>]

\* peek_next, lines 77-84
PeekNext(q) == IF q # <<>> THEN Head(q) ELSE None

\* is_empty, lines 128-130
IsEmpty(q) == Len(q) = 0

\* mutant: an empty queue is reloaded whether or not loop mode is on
PopNextAlwaysReloads(q, oq, loop) ==
    LET q1 == IF q = <<>> THEN oq ELSE q
    IN  IF q1 = <<>>
        THEN [queue |-> q, ret |-> None, emitted |-> <<"queue_empty">>]
        ELSE [queue |-> Tail(q1), ret |-> Head(q1),
              emitted |-> <<"line_pasted", "queue_changed">>]

\* mutant: after a reload nothing is popped
PopNextReloadOnly(q, oq, loop) ==
    IF q = <<>>
    THEN IF loop /\ oq # <<>>
         THEN [queue |-> oq, ret |-> None, emitted |-> <<"queue_changed">>]
         ELSE [queue |-> q, ret |-> None, emitted |-> <<"queue_empty">>]
    ELSE [queue |-> Tail(q), ret |-> Head(q),
          emitted |-> <<"line_pasted", "queue_changed">>]

\* mutant: pop() takes the last line, not the first
PopNextFromEnd(q, oq, loop) ==
    IF q = <<>>
    THEN [queue |-> q, ret |-> None, emitted |-> <<"queue_empty">>]
    ELSE [queue |-> SubSeq(q, 1, Len(q) - 1), ret |-> q[Len(q)],
          emitted |-> <<"line_pasted", "queue_changed">>]

\* pop_next, lines 86-112
PopNext(q, oq, loop) ==
    LET reload == q = <<>> /\ loop /\ oq # <<>>
        q1 == IF reload THEN oq ELSE q
        e1 == IF reload THEN <<"queue_changed">> ELSE <<>>
    IN  IF q = <<>> /\ ~reload
        THEN [queue |-> q, ret |-> None, emitted |-> <<"queue_empty">>]
        ELSE IF q1 # <<>>
        THEN [queue |-> Tail(q1), ret |-> Head(q1),
              emitted |-> e1 \o <<"line_pasted", "queue_changed">>
                             \o (IF Tail(q1) = <<>> /\ ~loop
                                 THEN <<"queue_empty">> ELSE <<>>)]
        ELSE [queue |-> q1, ret |-> None, emitted |-> e1]

\* get_count, get_total, get_current_position, lines 114-126
GetCount(q) == Len(q)
GetTotal(oq) == Len(oq)

\* mutant: the position counts from 0
GetCurrentPositionFromZero(q, oq) ==
    IF GetTotal(oq) > 0 THEN GetTotal(oq) - GetCount(q) ELSE 0

GetCurrentPosition(q, oq) ==
    IF GetTotal(oq) > 0 THEN GetTotal(oq) - GetCount(q) + 1 ELSE 0

\* the delimiter setter, lines 39-42
SetDelimiter(value) == IF value # <<>> THEN value ELSE DELIMITER_NEWLINE

\* ----------------------------------------------------------------- TrayIcon
\* What the tray shows of the queue: "empty" (Queue: Empty, tooltip Ready) or
\* "status" with the position, the total and the remaining figure.

\* update_status("", 0, 0), tray_icon.py lines 220-229
TrayEmpty == [shown |-> "empty", current |-> 0, total |-> 0, remaining |-> 0]

\* TrayIcon.update_status, tray_icon.py lines 210-225
TrayUpdateStatus(next_line, current, total) ==
    IF total > 0
    THEN [shown |-> "status", current |-> current, total |-> total,
          remaining |-> total - current + 1]
    ELSE TrayEmpty

\* _update_ui, main.py lines 174-185, on the queue and the snapshot
UpdateUi(q, oq) ==
    LET next_line == PeekNext(q)
        current == GetCurrentPosition(q, oq)
        total == GetTotal(oq)
    IN  IF next_line # None /\ next_line # <<>>
        THEN TrayUpdateStatus(next_line, current, total)
        ELSE TrayEmpty

\* the slots of _connect_signals, main.py lines 102-104, run on the signals a
\* queue manager call emitted, in their order: queue_changed -> _update_ui,
\* queue_empty -> _on_queue_empty (lines 187-190)
RECURSIVE ShowSignals(_, _, _, _)
ShowSignals(emitted, q, oq, t) ==
    IF emitted = <<>> THEN t
    ELSE ShowSignals(Tail(emitted), q, oq,
                     IF Head(emitted) = "queue_changed" THEN UpdateUi(q, oq)
                     ELSE IF Head(emitted) = "queue_empty" THEN TrayEmpty
                     ELSE t)

\* ---------------------------------------------------------------- Settings
\* A settings dictionary is a function from key names to values. The settings
\* file is [exists, valid, content]: whether it is there, whether open and
\* json.load succeed and give an object, and the object it holds.

\* DEFAULT_SETTINGS, lines 40-49 (the opacity 0.9 is written as a string)
DEFAULT_SETTINGS ==
    [delimiter |-> "newline", loop_mode |-> FALSE, show_indicator |-> TRUE,
     min_lines |-> 2, indicator_opacity |-> "0.9",
     indicator_position |-> "top-right", hotkey |-> "F9", paste_delay |-> 350]

\* {**a, **b}
DictMerge(a, b) ==
    [k \in (DOMAIN a) \cup (DOMAIN b) |-> IF k \in DOMAIN b THEN b[k] ELSE a[k]]

\* dict.get(key, default)
DictGet(d, key, default) == IF key \in DOMAIN d THEN d[key] ELSE default

\* d[key] = value
DictSet(d, key, value) ==
    [k \in (DOMAIN d) \cup {key} |-> IF k = key THEN value ELSE d[k]]

\* no settings file
NoFile == [exists |-> FALSE, valid |-> FALSE, content |-> [k \in {} |-> FALSE]]

\* mutant: the file's object replaces the defaults
SettingsLoadNoMerge(file) ==
    IF file.exists /\ file.valid THEN file.content ELSE DEFAULT_SETTINGS

\* Settings.load, lines 61-75: the _settings it leaves
SettingsLoad(file) ==
    IF file.exists
    THEN IF file.valid
         THEN DictMerge(DEFAULT_SETTINGS, file.content)
         ELSE DEFAULT_SETTINGS
    ELSE DEFAULT_SETTINGS

\* Settings.save, lines 77-85: the file json.dump leaves
SettingsSave(s) == [exists |-> TRUE, valid |-> TRUE, content |-> s]

\* _set_delimiter_from_settings, lines 85-94: the delimiter handed to the
\* queue manager's setter
DelimiterFromSettings(s) ==
    LET d == DictGet(s, "delimiter", "newline")
    IN  IF d = "newline" THEN DELIMITER_NEWLINE
        ELSE IF d = "comma" THEN DELIMITER_COMMA
        ELSE IF d = "tab" THEN DELIMITER_TAB
        ELSE IF d = "semicolon" THEN DELIMITER_SEMICOLON
        ELSE DELIMITER_NEWLINE

\* ------------------------------------------------------------ HotkeyHandler
\* A key is [name, char]: a member of pynput's Key has a name and no char
\* attribute, a KeyCode has a char (or None) and no name attribute; an
\* attribute that is missing is None.

Key(name) == [name |-> name, char |-> None]
KeyCode(char) == [name |-> None, char |-> char]

KeyF9 == Key(<<"f", "9">>)
KeyCtrl == Key(<<"c", "t", "r", "l">>)
KeyCtrlL == Key(<<"c", "t", "r", "l", "_", "l">>)
KeyShiftR == Key(<<"s", "h", "i", "f", "t", "_", "r">>)
KeyV == KeyCode(<<"v">>)
KeyUpperV == KeyCode(<<"V">>)

\* str.lower(), on the letters of the model's keys
PyLower(s) == [i \in DOMAIN s |-> IF s[i] = "V" THEN "v" ELSE s[i]]

\* the substrings _keys_match looks for in the names, lines 149-156
ModifierWords ==
    {<<"c", "m", "d">>, <<"c", "t", "r", "l">>, <<"a", "l", "t">>,
     <<"s", "h", "i", "f", "t">>}

\* mutant: only equal keys match
KeysMatchExact(key1, key2) == key1 = key2

\* _keys_match, lines 137-166
KeysMatch(key1, key2) ==
    IF key1 = key2
    THEN TRUE
    ELSE IF /\ key1.name # None
            /\ key2.name # None
            /\ \E w \in ModifierWords : Occurs(w, key1.name) /\ Occurs(w, key2.name)
    THEN TRUE
    ELSE IF key1.char \notin {None, <<>>} /\ key2.char \notin {None, <<>>}
    THEN PyLower(key1.char) = PyLower(key2.char)
    ELSE FALSE

\* _check_hotkey, lines 123-135
CheckHotkey(combination, keys) ==
    \A hk \in combination : \E ck \in keys : KeysMatch(hk, ck)

\* ------------------------------------------------------------------ launch
\* A process is [pc, listener, ret]: where main stands ("main" before it is
\* launched, "init" after QueueClipApp.init, "dialog" while run shows that
\* the application is already running, "exec" in the event loop, "quit"
\* after _quit stopped the threads, "exit" after run returned), whether its
\* hotkey listener thread runs, and what run returned.

\* the processes that are launched at most
Procs == 1..NumProcs

NotLaunched == [pc |-> "main", listener |-> FALSE, ret |-> 0]
Running == [pc |-> "exec", listener |-> TRUE, ret |-> 0]

\* ------------------------------------------------------------------- state

VARIABLES
    \* QueueManager: _queue, _original_queue, _delimiter, _loop_mode
    queue, original_queue, delimiter, loop_mode,
    \* the system clipboard, and whether a dataChanged notification of a write
    \* to it still waits in the UI event loop
    clipboard, notify,
    \* whether the clipboard's content was put there by the application
    \* (set_clipboard) rather than by something outside it
    appWrote,
    \* the clipboard's content when the first paste cycle began since no cycle
    \* was in hand or pending (clip), and whether something outside the
    \* application has written the clipboard since then (ext, with clip
    \* forgotten; so it is before any cycle)
    burst,
    \* ClipboardMonitor: _paused, _last_content, _min_lines, and how many
    \* times _on_data_changed is connected to clipboard.dataChanged
    paused, last_content, min_lines, connections,
    \* the QTimer.singleShot closures still pending, oldest first
    timers,
    \* the UI thread: where the handler it runs stands, and that handler's
    \* locals current_line, original_clipboard, current_clip
    pc, current_line, original_clipboard, current_clip,
    \* what the focused application received with the simulated keystroke
    last_pasted,
    \* observations: the last QueueManager call with its inputs and results
    \* (prev: the number of lines queued before a load_text),
    \* the last event handled, the statements of the paste cycle that ran
    \* last, whether the monitor was paused at the application's last
    \* clipboard write, whether something outside the application wrote the
    \* clipboard since the queue-line write of the cycle in hand (extCur) and
    \* the text the monitor last loaded since then, None if none (detCur), for
    \* each pending timer the same two and the statements of its cycle
    \* (cycles), whether loop mode was off at each pop_next call since the last
    \* load (loopFree) and, while it was, the number of those calls (pops)
    call, event, steps, writePaused, extCur, detCur, cycles, pops, loopFree,
    \* the number of snapshot lines the last clear dropped, 0 after a load
    dropped,
    \* the clipboard and keyboard operations that failed in the paste cycle in
    \* hand ("read", "write", "xdotool", "paste", "restore_read",
    \* "restore_write")
    failed,
    \* the text and the delimiter argument a run of SpecQM loads
    arg_text, arg_delim,
    \* HotkeyHandler: _current_keys, _enabled, _hotkey_combination, the keys
    \* the keyboard of the run has, and the paste_triggered emissions that
    \* wait in the UI event loop
    current_keys, enabled, hotkey_combination, keyboard, triggers,
    \* the key of the last press the listener handled and the keys that
    \* _check_hotkey saw then
    last_press,
    \* whether a key of the hotkey combination was released since the last
    \* paste_triggered emission (true before the first)
    released,
    \* Settings._settings and the settings file on disk
    settings, config_file,
    \* TRUE while the settings dialog is open (dialog.exec() has not returned)
    dialog,
    \* what the tray icon shows of the queue: status_action and tooltip
    tray,
    \* the launched processes (main) and the process that holds the lock file
    procs, lock_file,
    \* HotkeyHandler as a thread: _running, what _listener is ("none",
    \* "started", "stopped"), where run() stands ("not_started", "started",
    \* "flag_set", "loop", "cleanup", "finished") and where stop() stands
    \* ("idle", "flag_cleared", "waiting", "returned")
    running, listener, run_pc, stop_pc

argVars == <<arg_text, arg_delim>>
hkVars == <<current_keys, enabled, hotkey_combination, keyboard, last_press,
           released>>
cfgVars == <<settings, config_file, dialog>>
thrVars == <<running, listener, run_pc, stop_pc>>
runVars == <<procs, lock_file, thrVars>>
qmVars == <<queue, original_queue, delimiter, loop_mode>>
clipVars == <<clipboard, notify, appWrote, burst>>
monVars == <<paused, last_content, min_lines, connections>>
uiVars == <<pc, current_line, original_clipboard, current_clip>>
obsVars == <<call, event, steps, writePaused, extCur, detCur, cycles, pops,
             loopFree, dropped, failed>>
appVars == <<clipVars, monVars, timers, uiVars, last_pasted, tray, steps, writePaused,
             extCur, detCur, cycles, failed, argVars, hkVars, triggers, cfgVars,
             runVars>>
vars == <<qmVars, clipVars, monVars, timers, uiVars, last_pasted, tray, obsVars, argVars,
          hkVars, triggers, cfgVars, runVars>>

NoCall ==
    [op |-> "none", text |-> <<>>, delim |-> None, ret |-> None, count |-> 0,
     pos |-> 0, prev |-> 0, emitted |-> <<>>]

\* QueueClipApp.init, lines 37-83, with the settings file as it is found:
\* Settings.__init__ loads it, the queue manager gets loop mode and delimiter
\* from the settings, the monitor its min_lines; the clipboard as the desktop
\* left it, no process launched yet besides
InitFrom(file) ==
    /\ config_file = file
    /\ settings = SettingsLoad(file)
    /\ dialog = FALSE
    /\ queue = <<>>
    /\ original_queue = <<>>
    /\ delimiter = SetDelimiter(DelimiterFromSettings(settings))
    /\ loop_mode = DictGet(settings, "loop_mode", FALSE)
    /\ clipboard = <<>>
    /\ notify = FALSE
    /\ appWrote = FALSE
    /\ burst = [clip |-> <<>>, ext |-> TRUE]
    /\ paused = FALSE
    /\ last_content = <<>>
    /\ min_lines = DictGet(settings, "min_lines", 2)
    /\ connections = 1
    /\ timers = <<>>
    /\ pc = "idle"
    /\ current_line = None
    /\ original_clipboard = <<>>
    /\ current_clip = <<>>
    /\ last_pasted = None
    /\ tray = TrayEmpty
    /\ call = NoCall
    /\ event = "init"
    /\ steps = <<>>
    /\ writePaused = TRUE
    /\ extCur = FALSE
    /\ detCur = None
    /\ cycles = <<>>
    /\ pops = 0
    /\ loopFree = TRUE
    /\ dropped = 0
    /\ failed = {}
    /\ current_keys = {}
    /\ last_press = [key |-> Key(None), keys |-> {}]
    /\ released = TRUE
    /\ enabled = TRUE
    /\ triggers = 0

\* the listener thread as it is while the event loop runs: in its loop
Listening ==
    /\ running = TRUE
    /\ listener = "started"
    /\ run_pc = "loop"
    /\ stop_pc = "idle"

\* no settings file, the default hotkey F9 on a keyboard that has that key,
\* one process, which holds the lock and runs the event loop
InitApp ==
    /\ InitFrom(NoFile)
    /\ hotkey_combination = {KeyF9}
    /\ keyboard = {KeyF9}
    /\ procs = [p \in Procs |-> IF p = 1 THEN Running ELSE NotLaunched]
    /\ lock_file = 1
    /\ Listening

\* as InitApp, with the settings file drawn
InitWithFile(files) ==
    /\ \E file \in files : InitFrom(file)
    /\ hotkey_combination = {KeyF9}
    /\ keyboard = {KeyF9}
    /\ procs = [p \in Procs |-> IF p = 1 THEN Running ELSE NotLaunched]
    /\ lock_file = 1
    /\ Listening
    /\ arg_text = <<>>
    /\ arg_delim = None

Init ==
    /\ InitApp
    /\ arg_text = <<>>
    /\ arg_delim = None

\* ------------------------------------------------------- ClipboardMonitor

\* pause, lines 43-52: [paused, connections] afterwards
Pause(p, c) ==
    IF ~p
    THEN [paused |-> TRUE, connections |-> IF c > 0 THEN c - 1 ELSE c]
    ELSE [paused |-> p, connections |-> c]

\* mutant: resume connects the handler whether or not the monitor was paused
ResumeAlwaysConnects(p, c) == [paused |-> FALSE, connections |-> c + 1]

\* resume, lines 54-63
Resume(p, c) ==
    IF p
    THEN [paused |-> FALSE, connections |-> c + 1]
    ELSE [paused |-> p, connections |-> c]

\* mutant: a text equal to the last-seen content is processed again
OnDataChangedNoDedup(p, last, ml, text) ==
    IF p \/ text = <<>>
    THEN [last_content |-> last, emit |-> FALSE]
    ELSE [last_content |-> text, emit |-> CountNewlines(text) + 1 >= ml]

\* mutant: the line count is checked before the text is remembered
OnDataChangedCountFirst(p, last, ml, text) ==
    IF p \/ text = <<>> \/ text = last \/ CountNewlines(text) + 1 < ml
    THEN [last_content |-> last, emit |-> FALSE]
    ELSE [last_content |-> text, emit |-> TRUE]

\* _on_data_changed, lines 65-95, on the clipboard's text: the _last_content
\* it leaves and whether it emits content_detected(text)
OnDataChanged(p, last, ml, text) ==
    IF p \/ text = <<>> \/ text = last
    THEN [last_content |-> last, emit |-> FALSE]
    ELSE [last_content |-> text, emit |-> CountNewlines(text) + 1 >= ml]

\* the min_lines setter, lines 38-41
SetMinLines(value) == IF value > 1 THEN value ELSE 1

\* mutant: a failed read gives None
GetClipboardNone(ok, clip) == IF ok THEN clip ELSE None

\* get_clipboard, lines 122-130: the text read, "" when pyperclip.paste
\* raises or returns nothing
GetClipboard(ok, clip) == IF ok THEN clip ELSE <<>>

\* set_clipboard, lines 109-119: the clipboard afterwards and what is returned
SetClipboard(ok, clip, text) ==
    [clipboard |-> IF ok THEN text ELSE clip, ret |-> ok]

\* ------------------------------------------- the queue manager on its own

\* every text of at most MaxTextLen characters
Texts == UNION {[1..n -> Chars] : n \in 0..MaxTextLen}

\* the delimiters a caller hands over: the built-in ones and a custom one of
\* two characters
Delims == {DELIMITER_NEWLINE, DELIMITER_COMMA, <<",", ",">>}

\* mutant: load_text appends the new lines to what is queued
QMLoadTextAppends(text, d) ==
    LET dl == IF d # None THEN d ELSE delimiter
        r == LoadText(text, dl)
    IN  /\ delimiter' = dl
        /\ queue' = queue \o r.queue
        /\ original_queue' = original_queue \o r.original_queue
        /\ call' = [NoCall EXCEPT !.op = "load_text", !.text = text,
                                  !.delim = dl, !.count = Len(queue'),
                                  !.prev = GetCount(queue),
                                  !.emitted = r.emitted]
        /\ pops' = 0
        /\ loopFree' = TRUE
        /\ dropped' = 0
        /\ UNCHANGED <<loop_mode, appVars, event>>

\* load_text(text, d), d = None when the argument is left out
QMLoadText(text, d) ==
    LET dl == IF d # None THEN d ELSE delimiter
        r == LoadText(text, dl)
    IN  /\ delimiter' = dl
        /\ queue' = r.queue
        /\ original_queue' = r.original_queue
        /\ call' = [NoCall EXCEPT !.op = "load_text", !.text = text,
                                  !.delim = dl, !.count = r.count,
                                  !.prev = GetCount(queue),
                                  !.emitted = r.emitted]
        /\ pops' = 0
        /\ loopFree' = TRUE
        /\ dropped' = 0
        /\ UNCHANGED <<loop_mode, appVars, event>>

QMPeekNext ==
    /\ call' = [NoCall EXCEPT !.op = "peek_next", !.ret = PeekNext(queue)]
    /\ UNCHANGED <<dropped, qmVars, appVars, event, pops, loopFree>>

QMPopNext ==
    LET r == PopNext(queue, original_queue, loop_mode)
    IN  /\ pops < MaxPops
        /\ queue' = r.queue
        /\ call' = [NoCall EXCEPT !.op = "pop_next", !.ret = r.ret,
                                  !.emitted = r.emitted]
        /\ pops' = IF loopFree /\ ~loop_mode THEN pops + 1 ELSE 0
        /\ loopFree' = (loopFree /\ ~loop_mode)
        /\ UNCHANGED <<dropped, original_queue, delimiter, loop_mode, appVars, event>>

\* mutant: clear leaves the live queue
QMClearKeepsQueue ==
    /\ original_queue' = <<>>
    /\ call' = [NoCall EXCEPT !.op = "clear",
                              !.emitted = <<"queue_changed", "queue_empty">>]
    /\ pops' = 0
    /\ loopFree' = TRUE
    /\ dropped' = GetTotal(original_queue)
    /\ UNCHANGED <<queue, delimiter, loop_mode, appVars, event>>

\* mutant: clear leaves the snapshot
QMClearKeepsSnapshot ==
    /\ queue' = <<>>
    /\ call' = [NoCall EXCEPT !.op = "clear",
                              !.emitted = <<"queue_changed", "queue_empty">>]
    /\ pops' = 0
    /\ loopFree' = TRUE
    /\ dropped' = GetTotal(original_queue)
    /\ UNCHANGED <<original_queue, delimiter, loop_mode, appVars, event>>

\* get_current_position, lines 122-126
QMGetCurrentPosition ==
    /\ call' = [NoCall EXCEPT !.op = "get_current_position",
                              !.pos = GetCurrentPosition(queue, original_queue)]
    /\ UNCHANGED <<qmVars, appVars, event, pops, loopFree, dropped>>

\* clear, lines 132-138
QMClear ==
    /\ queue' = <<>>
    /\ original_queue' = <<>>
    /\ call' = [NoCall EXCEPT !.op = "clear",
                              !.emitted = <<"queue_changed", "queue_empty">>]
    /\ pops' = 0
    /\ loopFree' = TRUE
    /\ dropped' = GetTotal(original_queue)
    /\ UNCHANGED <<delimiter, loop_mode, appVars, event>>

\* the loop_mode setter, lines 49-52
QMSetLoopMode(value) ==
    /\ loop_mode' = value
    /\ call' = [NoCall EXCEPT !.op = "set_loop_mode"]
    /\ UNCHANGED <<dropped, queue, original_queue, delimiter, appVars, event, pops, loopFree>>

QMSetDelimiter(value) ==
    /\ delimiter' = SetDelimiter(value)
    /\ call' = [NoCall EXCEPT !.op = "set_delimiter"]
    /\ UNCHANGED <<dropped, queue, original_queue, loop_mode, appVars, event, pops, loopFree>>

\* the texts the desktop's other applications copy in Spec
ExternalTexts == {<<"a">>, <<"a", "\n", "b">>}

\* as Init, with the inputs of the run drawn
InitQM ==
    /\ InitApp
    /\ arg_text \in Texts
    /\ arg_delim \in Delims \cup {None}

NextQM ==
    \/ QMLoadText(arg_text, arg_delim)
    \/ QMPeekNext
    \/ QMPopNext
    \/ QMGetCurrentPosition
    \/ QMClear
    \/ \E value \in BOOLEAN : QMSetLoopMode(value)
    \/ \E value \in {DELIMITER_COMMA, <<>>} : QMSetDelimiter(value)

SpecQM == InitQM /\ [][NextQM]_vars

\* ------------------------------------------------------- the application
\* The UI thread runs one handler at a time (pc = "idle" between handlers).
\* A handler is cut where it reads or writes the system clipboard or sends
\* the keystroke: other applications write the clipboard between those
\* points. paste_delay is the same for every cycle, so the timers fire in
\* the order they were set.

qmOnly == <<pops, loopFree, dropped, arg_text, arg_delim, runVars>>
obsCur == <<extCur, detCur>>

\* another application copies a text
ExternalCopy(text) ==
    /\ clipboard' = text
    /\ notify' = TRUE
    /\ appWrote' = FALSE
    /\ burst' = [clip |-> <<>>, ext |-> TRUE]
    /\ extCur' = (extCur \/ pc \in {"written", "pasted"})
    /\ cycles' = [i \in DOMAIN cycles |-> [cycles[i] EXCEPT !.ext = TRUE]]
    /\ event' = "external_copy"
    /\ UNCHANGED <<qmVars, monVars, timers, uiVars, last_pasted, tray, call, steps,
                   writePaused, detCur, qmOnly, hkVars,
                   triggers, cfgVars, failed>>

\* mutant: the emission runs the paste handler at once, in the listener
\* thread, wherever the UI thread stands
OnPressDirect(key) ==
    LET keys == current_keys \cup {key}
        emit == enabled /\ CheckHotkey(hotkey_combination, keys) /\ queue # <<>>
    IN  /\ current_keys' = IF ~enabled THEN current_keys
                           ELSE IF emit THEN {} ELSE keys
        /\ current_line' = IF emit THEN PeekNext(queue) ELSE current_line
        /\ original_clipboard' = IF emit THEN clipboard ELSE original_clipboard
        /\ pc' = IF emit THEN "saved" ELSE pc
        /\ steps' = IF emit THEN <<"save">> ELSE steps
        /\ last_press' = [key |-> key,
                          keys |-> IF enabled THEN keys ELSE current_keys]
        /\ released' = (released /\ ~emit)
        /\ event' = "key_press"
        /\ UNCHANGED <<qmVars, clipVars, monVars, timers, current_clip,
                       last_pasted, tray, call, writePaused, obsCur, cycles, qmOnly,
                       enabled, hotkey_combination, keyboard, triggers, cfgVars,
                       failed>>

\* the listener thread, _on_press, lines 98-114: paste_triggered.emit() from
\* that thread queues the handler's call in the UI event loop
OnPress(key) ==
    LET keys == current_keys \cup {key}
        emit == enabled /\ CheckHotkey(hotkey_combination, keys)
    IN  /\ emit => triggers < MaxTriggers
        /\ current_keys' = IF ~enabled THEN current_keys
                           ELSE IF emit THEN {} ELSE keys
        /\ triggers' = IF emit THEN triggers + 1 ELSE triggers
        /\ last_press' = [key |-> key,
                          keys |-> IF enabled THEN keys ELSE current_keys]
        /\ released' = (released /\ ~emit)
        /\ event' = "key_press"
        /\ UNCHANGED <<qmVars, clipVars, monVars, timers, uiVars, last_pasted, tray,
                       call, steps, writePaused, obsCur, cycles, qmOnly, enabled,
                       hotkey_combination, keyboard, cfgVars, failed>>

\* the listener thread, _on_release, lines 116-121
OnRelease(key) ==
    /\ current_keys' = current_keys \ {key}
    /\ released' = (released \/ \E hk \in hotkey_combination : KeysMatch(hk, key))
    /\ event' = "key_release"
    /\ UNCHANGED <<qmVars, clipVars, monVars, timers, uiVars, last_pasted, tray, call,
                   steps, writePaused, obsCur, cycles, qmOnly, enabled,
                   hotkey_combination, keyboard, last_press, triggers, cfgVars,
                   failed>>

\* mutant: the handler does not look whether the queue is empty
PasteBeginNoEmptyCheck(ok) ==
    /\ pc = "idle"
    /\ triggers > 0
    /\ triggers' = triggers - 1
    /\ Len(timers) < MaxTimers
    /\ event' = "paste_triggered"
    /\ current_line' = PeekNext(queue)
    /\ original_clipboard' = GetClipboard(ok, clipboard)
    /\ burst' = IF timers = <<>>
                 THEN [clip |-> clipboard, ext |-> FALSE]
                 ELSE burst
    /\ failed' = IF ok THEN {} ELSE {"read"}
    /\ pc' = "saved"
    /\ steps' = <<"save">>
    /\ UNCHANGED <<qmVars, clipboard, notify, appWrote, monVars, timers,
                   current_clip, last_pasted, tray, call, writePaused, obsCur, cycles,
                   qmOnly, hkVars, cfgVars>>

\* _on_paste_triggered, lines 122-134, when the event loop delivers a queued
\* paste_triggered: the early returns, the line to paste, the clipboard saved
\* (ok: whether pyperclip.paste succeeds)
PasteBegin(ok) ==
    /\ pc = "idle"
    /\ triggers > 0
    /\ triggers' = triggers - 1
    /\ Len(timers) < MaxTimers
    /\ IF IsEmpty(queue) \/ PeekNext(queue) \in {None, <<>>}
       THEN /\ event' = "paste_ignored"
            /\ UNCHANGED <<uiVars, steps, failed, burst>>
       ELSE /\ event' = "paste_triggered"
            /\ current_line' = PeekNext(queue)
            /\ original_clipboard' = GetClipboard(ok, clipboard)
            /\ burst' = IF timers = <<>>
                         THEN [clip |-> clipboard, ext |-> FALSE]
                         ELSE burst
            /\ failed' = IF ok THEN {} ELSE {"read"}
            /\ pc' = "saved"
            /\ steps' = <<"save">>
            /\ UNCHANGED current_clip
    /\ UNCHANGED <<qmVars, clipboard, notify, appWrote, monVars, timers,
                   last_pasted, tray, call, writePaused, obsCur, cycles, qmOnly,
                   hkVars, cfgVars>>

\* lines 136-140: pause the monitor, put the queue line in the clipboard
\* (ok: whether pyperclip.copy succeeds)
PasteWrite(ok) ==
    /\ pc = "saved"
    /\ paused' = Pause(paused, connections).paused
    /\ connections' = Pause(paused, connections).connections
    /\ clipboard' = SetClipboard(ok, clipboard, current_line).clipboard
    /\ notify' = (notify \/ ok)
    /\ appWrote' = (appWrote \/ ok)
    /\ failed' = IF ok THEN failed ELSE failed \cup {"write"}
    /\ writePaused' = paused'
    /\ extCur' = FALSE
    /\ detCur' = None
    /\ pc' = "written"
    /\ steps' = steps \o <<"pause", "write">>
    /\ event' = "paste_write"
    /\ UNCHANGED <<qmVars, burst, last_content, min_lines, timers, current_line,
                   original_clipboard, current_clip, last_pasted, tray, call, cycles,
                   qmOnly, hkVars, triggers, cfgVars>>

\* mutant: the line is popped before the keystroke is sent
PasteSimulatePopsFirst(terminal, xdotool, keys) ==
    /\ pc = "written"
    /\ queue' = PopNext(queue, original_queue, loop_mode).queue
    /\ last_pasted' = clipboard
    /\ tray' = tray
    /\ pc' = "pasted"
    /\ steps' = steps \o <<"pop", "paste">>
    /\ event' = "paste_simulate"
    /\ UNCHANGED <<original_queue, delimiter, loop_mode, clipVars, monVars,
                   timers, current_line, original_clipboard, current_clip, call,
                   writePaused, obsCur, cycles, qmOnly, hkVars, triggers,
                   cfgVars, failed>>

\* simulate_paste, hotkey_handler.py lines 168-199: how often a paste
\* keystroke is attempted and whether one is sent, given whether the focused
\* window is a terminal on Linux, whether the xdotool call returns, and
\* whether pynput's controller sends its keys
SimulatePaste(terminal, xdotool, keys) ==
    IF terminal
    THEN IF xdotool
         THEN [attempts |-> <<"paste">>, sent |-> TRUE]
         ELSE [attempts |-> <<"paste", "paste">>, sent |-> keys]
    ELSE [attempts |-> <<"paste">>, sent |-> keys]

\* line 143, simulate_paste: the focused application pastes what the
\* clipboard holds when the keystroke reaches it
PasteSimulate(terminal, xdotool, keys) ==
    LET r == SimulatePaste(terminal, xdotool, keys)
    IN  /\ pc = "written"
        /\ last_pasted' = IF r.sent THEN clipboard ELSE last_pasted
        /\ tray' = tray
        /\ failed' = failed \cup (IF r.sent THEN {} ELSE {"paste"})
                            \cup (IF Len(r.attempts) > 1 THEN {"xdotool"} ELSE {})
        /\ pc' = "pasted"
        /\ steps' = steps \o r.attempts
        /\ event' = "paste_simulate"
        /\ UNCHANGED <<qmVars, clipVars, monVars, timers, current_line,
                       original_clipboard, current_clip, call, writePaused,
                       obsCur, cycles, qmOnly, hkVars, triggers, cfgVars>>

\* lines 145-167: pop the line, set the timer that runs restore_clipboard
PasteFinish ==
    LET r == PopNext(queue, original_queue, loop_mode)
    IN  /\ pc = "pasted"
        /\ queue' = r.queue
        /\ tray' = ShowSignals(r.emitted, r.queue, original_queue, tray)
        /\ call' = [NoCall EXCEPT !.op = "pop_next", !.ret = r.ret,
                                  !.emitted = r.emitted]
        /\ timers' = Append(timers, [current_line |-> current_line,
                                     original_clipboard |-> original_clipboard])
        /\ cycles' = Append(cycles, [ext |-> extCur, det |-> detCur,
                                     failed |-> failed,
                                     steps |-> steps \o <<"pop", "schedule">>])
        /\ steps' = steps \o <<"pop", "schedule">>
        /\ extCur' = FALSE
        /\ detCur' = None
        /\ pc' = "idle"
        /\ current_line' = None
        /\ original_clipboard' = <<>>
        /\ event' = "paste_finish"
        /\ UNCHANGED <<original_queue, delimiter, loop_mode, clipVars, monVars,
                       current_clip, last_pasted, writePaused, qmOnly, hkVars,
                       triggers, cfgVars, failed>>

\* restore_clipboard, line 153: the oldest timer fires and reads the
\* clipboard (ok: whether pyperclip.paste succeeds)
RestoreCheck(ok) ==
    /\ pc = "idle"
    /\ timers # <<>>
    /\ current_line' = Head(timers).current_line
    /\ original_clipboard' = Head(timers).original_clipboard
    /\ current_clip' = GetClipboard(ok, clipboard)
    /\ failed' = IF ok THEN Head(cycles).failed
                 ELSE Head(cycles).failed \cup {"restore_read"}
    /\ timers' = Tail(timers)
    /\ extCur' = Head(cycles).ext
    /\ detCur' = Head(cycles).det
    /\ steps' = Append(Head(cycles).steps, "restore_check")
    /\ cycles' = Tail(cycles)
    /\ pc' = "checked"
    /\ event' = "restore_check"
    /\ UNCHANGED <<qmVars, clipVars, monVars, last_pasted, tray, call, writePaused,
                   qmOnly, hkVars, triggers, cfgVars>>

\* mutant: the restore is unconditional
RestoreGuardAlways(clip, line) == TRUE

\* mutant: the comparison is inverted
RestoreGuardInverted(clip, line) == clip # line

\* line 154: restore only if the clipboard still has the queue item
RestoreGuard(clip, line) == clip = line

\* mutant: the monitor is resumed only after a restore that was performed
RestoreFinishResumesOnWrite(ok) ==
    /\ pc = "checked"
    /\ IF RestoreGuard(current_clip, current_line)
       THEN /\ clipboard' = SetClipboard(ok, clipboard, original_clipboard).clipboard
            /\ notify' = (notify \/ ok)
            /\ appWrote' = (appWrote \/ ok)
            /\ last_content' = original_clipboard
            /\ failed' = IF ok THEN failed ELSE failed \cup {"restore_write"}
            /\ writePaused' = paused
            /\ event' = "restore_write"
            /\ paused' = Resume(paused, connections).paused
            /\ connections' = Resume(paused, connections).connections
       ELSE /\ last_content' = current_clip
            /\ event' = "restore_skip"
            /\ UNCHANGED <<clipboard, notify, appWrote, writePaused, failed,
                           paused, connections>>
    /\ pc' = "idle"
    /\ current_line' = None
    /\ original_clipboard' = <<>>
    /\ current_clip' = <<>>
    /\ UNCHANGED <<qmVars, burst, min_lines, timers, last_pasted, tray, call, steps,
                   obsCur, cycles, qmOnly, hkVars, triggers, cfgVars>>

\* restore_clipboard, lines 154-163: restore or skip, then resume (ok: whether
\* pyperclip.copy succeeds)
RestoreFinish(ok) ==
    /\ pc = "checked"
    /\ IF RestoreGuard(current_clip, current_line)
       THEN /\ clipboard' = SetClipboard(ok, clipboard, original_clipboard).clipboard
            /\ notify' = (notify \/ ok)
            /\ appWrote' = (appWrote \/ ok)
            /\ last_content' = original_clipboard
            /\ failed' = IF ok THEN failed ELSE failed \cup {"restore_write"}
            /\ writePaused' = paused
            /\ event' = "restore_write"
       ELSE /\ last_content' = current_clip
            /\ event' = "restore_skip"
            /\ UNCHANGED <<clipboard, notify, appWrote, writePaused, failed>>
    /\ paused' = Resume(paused, connections).paused
    /\ connections' = Resume(paused, connections).connections
    /\ pc' = "idle"
    /\ current_line' = None
    /\ original_clipboard' = <<>>
    /\ current_clip' = <<>>
    /\ UNCHANGED <<qmVars, burst, min_lines, timers, last_pasted, tray, call, steps,
                   obsCur, cycles, qmOnly, hkVars, triggers, cfgVars>>

\* the event loop delivers clipboard.dataChanged: _on_data_changed if it is
\* connected, and _on_clipboard_content (lines 116-120) if that emits
DataChanged ==
    LET r == OnDataChanged(paused, last_content, min_lines, clipboard)
        l == LoadText(clipboard, delimiter)
    IN  /\ pc = "idle"
        /\ notify
        /\ notify' = FALSE
        /\ IF connections > 0 /\ r.emit
           THEN /\ last_content' = r.last_content
                /\ queue' = l.queue
                /\ original_queue' = l.original_queue
                /\ tray' = ShowSignals(l.emitted, l.queue, l.original_queue,
                                       tray)
                /\ call' = [NoCall EXCEPT !.op = "load_text",
                                          !.text = clipboard,
                                          !.delim = delimiter,
                                          !.count = l.count,
                                          !.prev = GetCount(queue),
                                          !.emitted = l.emitted]
                /\ cycles' = [i \in DOMAIN cycles |->
                                [cycles[i] EXCEPT !.det = clipboard]]
                /\ event' = "content_detected"
           ELSE /\ last_content' =
                       IF connections > 0 THEN r.last_content ELSE last_content
                /\ event' = "data_changed"
                /\ UNCHANGED <<queue, original_queue, tray, call, cycles>>
        /\ UNCHANGED <<delimiter, loop_mode, clipboard, appWrote, burst, paused,
                       min_lines,
                       connections, timers, uiVars, last_pasted, steps,
                       writePaused, obsCur, qmOnly, hkVars, triggers, cfgVars,
                       failed>>

\* _on_loop_mode_toggled, lines 192-195: the queue manager's loop mode, then
\* Settings.set('loop_mode', enabled), which saves the file
OnLoopModeToggled(value) ==
    /\ pc = "idle"
    /\ loop_mode' = value
    /\ settings' = DictSet(settings, "loop_mode", value)
    /\ config_file' = SettingsSave(settings')
    /\ call' = [NoCall EXCEPT !.op = "set_loop_mode"]
    /\ event' = "loop_mode_toggled"
    /\ UNCHANGED <<dialog, queue, original_queue, delimiter, clipVars, monVars,
                   timers,
                   uiVars, last_pasted, tray, steps, writePaused, obsCur, cycles,
                   qmOnly, hkVars, triggers, failed>>

\* _on_clear_queue, lines 211-215
OnClearQueue ==
    /\ pc = "idle"
    /\ queue' = <<>>
    /\ original_queue' = <<>>
    /\ tray' = TrayEmpty
    /\ call' = [NoCall EXCEPT !.op = "clear",
                              !.emitted = <<"queue_changed", "queue_empty">>]
    /\ event' = "clear_queue"
    /\ UNCHANGED <<delimiter, loop_mode, clipVars, monVars, timers, uiVars,
                   last_pasted, steps, writePaused, obsCur, cycles, qmOnly,
                   hkVars, triggers, cfgVars, failed>>

Next ==
    \/ \E text \in ExternalTexts : ExternalCopy(text)
    \/ \E key \in keyboard : OnPress(key)
    \/ \E key \in keyboard : OnRelease(key)
    \/ PasteBegin(TRUE)
    \/ PasteWrite(TRUE)
    \/ \E terminal \in BOOLEAN : PasteSimulate(terminal, TRUE, TRUE)
    \/ PasteFinish
    \/ RestoreCheck(TRUE)
    \/ RestoreFinish(TRUE)
    \/ DataChanged
    \/ \E value \in BOOLEAN : OnLoopModeToggled(value)
    \/ OnClearQueue

Spec == Init /\ [][Next]_vars

\* the text copied in SpecFault
FaultTexts == {<<"a", "\n", "b">>}

\* the capture and the paste cycle, with clipboard reads, clipboard writes and
\* the paste keystroke that may fail; a cycle begins when no timer is pending
NextFault ==
    \/ \E text \in FaultTexts : ExternalCopy(text)
    \/ \E key \in keyboard : OnPress(key)
    \/ \E key \in keyboard : OnRelease(key)
    \/ \E ok \in BOOLEAN : PasteBegin(ok) /\ timers = <<>>
    \/ \E ok \in BOOLEAN : PasteWrite(ok)
    \/ \E terminal, xdotool, keys \in BOOLEAN :
          PasteSimulate(terminal, xdotool, keys)
    \/ PasteFinish
    \/ \E ok \in BOOLEAN : RestoreCheck(ok)
    \/ \E ok \in BOOLEAN : RestoreFinish(ok)
    \/ DataChanged

SpecFault == Init /\ [][NextFault]_vars

\* --------------------------------------------- the running event loop
\* The application with overlapping cycles and a restore whose clipboard read
\* or write may fail, under the scheduling of a running event loop: a handler
\* that has begun goes on to its end, and a restore timer that is pending is
\* fired at some return to the event loop, however many hotkey triggers are
\* handled in between.

NextLive ==
    \/ \E text \in FaultTexts : ExternalCopy(text)
    \/ \E key \in keyboard : OnPress(key)
    \/ \E key \in keyboard : OnRelease(key)
    \/ PasteBegin(TRUE)
    \/ PasteWrite(TRUE)
    \/ PasteSimulate(FALSE, TRUE, TRUE)
    \/ PasteFinish
    \/ \E ok \in BOOLEAN : RestoreCheck(ok)
    \/ \E ok \in BOOLEAN : RestoreFinish(ok)
    \/ DataChanged

Fairness ==
    /\ WF_vars(PasteWrite(TRUE))
    /\ WF_vars(PasteSimulate(FALSE, TRUE, TRUE))
    /\ WF_vars(PasteFinish)
    /\ SF_vars(\E ok \in BOOLEAN : RestoreCheck(ok))
    /\ WF_vars(\E ok \in BOOLEAN : RestoreFinish(ok))

SpecLive == Init /\ [][NextLive]_vars /\ Fairness

\* ------------------------------------------------- the Settings class alone

\* a settings file that cannot be read or parsed
CorruptFile == [exists |-> TRUE, valid |-> FALSE, content |-> [k \in {} |-> FALSE]]

\* the objects a settings file holds: none of the keys, some, all, and a key
\* the defaults do not have
FileContents ==
    {[k \in {} |-> FALSE],
     [loop_mode |-> TRUE],
     [delimiter |-> "comma", min_lines |-> 1],
     [delimiter |-> "custom", custom_delimiter |-> <<",">>],
     DEFAULT_SETTINGS,
     [delimiter |-> "tab", loop_mode |-> TRUE, show_indicator |-> FALSE,
      min_lines |-> 3, indicator_opacity |-> "0.5",
      indicator_position |-> "top-left", hotkey |-> "F8", paste_delay |-> 50]}

Files ==
    {NoFile, CorruptFile}
        \cup {[exists |-> TRUE, valid |-> TRUE, content |-> c] : c \in FileContents}

\* the (key, value) pairs handed to Settings.set
SetArgs ==
    {<<"loop_mode", TRUE>>, <<"delimiter", "comma">>, <<"min_lines", 1>>,
     <<"custom_delimiter", <<",">> >>}

\* the file is written, removed or damaged from outside the application
FileChanged(file) ==
    /\ config_file' = file
    /\ event' = "file_changed"
    /\ UNCHANGED <<qmVars, clipVars, monVars, timers, uiVars, last_pasted, tray, call,
                   steps, writePaused, obsCur, cycles, qmOnly, hkVars, triggers,
                   settings, dialog, failed>>

\* Settings.load, lines 61-75
STLoad ==
    /\ settings' = SettingsLoad(config_file)
    /\ event' = "settings_load"
    /\ UNCHANGED <<dialog, qmVars, clipVars, monVars, timers, uiVars, last_pasted, tray,
                   call,
                   steps, writePaused, obsCur, cycles, qmOnly, hkVars, triggers,
                   config_file, failed>>

\* mutant: set changes the dictionary and leaves the file as it was
STSetNoSave(key, value) ==
    /\ settings' = DictSet(settings, key, value)
    /\ call' = [NoCall EXCEPT !.op = "set", !.text = <<key>>,
                              !.ret = <<value>>]
    /\ event' = "settings_set"
    /\ UNCHANGED <<dialog, config_file, qmVars, clipVars, monVars, timers,
                   uiVars, last_pasted, tray, steps, writePaused, obsCur,
                   cycles, qmOnly, hkVars, triggers, failed>>

\* Settings.set, lines 91-94; call keeps the key and the value handed in
STSet(key, value) ==
    /\ settings' = DictSet(settings, key, value)
    /\ config_file' = SettingsSave(settings')
    /\ call' = [NoCall EXCEPT !.op = "set", !.text = <<key>>,
                              !.ret = <<value>>]
    /\ event' = "settings_set"
    /\ UNCHANGED <<dialog, qmVars, clipVars, monVars, timers, uiVars,
                   last_pasted, tray, steps, writePaused, obsCur, cycles,
                   qmOnly, hkVars, triggers, failed>>

\* Settings.reset, lines 96-99
STReset ==
    /\ settings' = DEFAULT_SETTINGS
    /\ config_file' = SettingsSave(settings')
    /\ event' = "settings_reset"
    /\ UNCHANGED <<dialog, qmVars, clipVars, monVars, timers, uiVars, last_pasted, tray,
                   call,
                   steps, writePaused, obsCur, cycles, qmOnly, hkVars, triggers,
                   failed>>

InitSettings == InitWithFile(Files)

NextSettings ==
    \/ \E file \in Files : FileChanged(file)
    \/ STLoad
    \/ \E a \in SetArgs : STSet(a[1], a[2])
    \/ STReset

SpecSettings == InitSettings /\ [][NextSettings]_vars

\* --------------------------------------------- the settings and the capture
\* The handlers that change settings, and the capture of a copied text, with
\* no paste cycle running.

\* the delimiter names the tray menu offers, tray_icon.py lines 145-150
TrayDelimiters == {"newline", "comma", "tab", "semicolon"}

\* the delimiter names the dialog's combo box offers, settings.py line 270
DialogDelimiters == {"newline", "comma", "tab", "semicolon", "custom"}

\* the texts typed as custom delimiter
CustomDelimiters == {<<",">>, <<"b">>}

\* the texts copied in SpecCfg
CfgTexts == {<<"a", ",", "b">>, <<"a", ",", "b", "\n", "c">>}

\* the settings files SpecCfg starts with
CfgFiles ==
    {NoFile,
     [exists |-> TRUE, valid |-> TRUE,
      content |-> [delimiter |-> "custom", custom_delimiter |-> <<",">>]]}

\* SettingsDialog._save_settings, lines 267-293, on the values chosen for
\* delimiter, custom delimiter, loop mode and min lines (the other widgets
\* hold the values they were loaded with), each Settings.set saving the
\* file; then settings_changed: _apply_settings, main.py lines 223-239
SaveSettings(d, custom, loop, ml) ==
    LET s1 == DictSet(settings, "delimiter", d)
        s2 == IF d = "custom" THEN DictSet(s1, "custom_delimiter", custom) ELSE s1
        s3 == DictSet(s2, "loop_mode", loop)
        s4 == DictSet(s3, "min_lines", ml)
    IN  /\ pc = "idle"
        /\ dialog
        /\ dialog' = FALSE
        /\ settings' = s4
        /\ config_file' = SettingsSave(s4)
        /\ loop_mode' = DictGet(s4, "loop_mode", FALSE)
        /\ delimiter' = SetDelimiter(DelimiterFromSettings(s4))
        /\ min_lines' = SetMinLines(DictGet(s4, "min_lines", 2))
        /\ call' = [NoCall EXCEPT !.op = "set_delimiter"]
        /\ event' = "settings_saved"
        /\ UNCHANGED <<queue, original_queue, clipVars, paused, last_content,
                       connections, timers, uiVars, last_pasted, tray, steps,
                       writePaused, obsCur, cycles, qmOnly, hkVars, triggers,
                       failed>>

\* _show_settings, main.py lines 217-221: the dialog is built on the
\* application's Settings object and run modally
ShowSettings ==
    /\ pc = "idle"
    /\ ~dialog
    /\ dialog' = TRUE
    /\ event' = "settings_shown"
    /\ UNCHANGED <<settings, config_file, qmVars, clipVars, monVars, timers,
                   uiVars, last_pasted, tray, call, steps, writePaused, obsCur,
                   cycles, qmOnly, hkVars, triggers, failed>>

\* the Cancel button, settings.py line 225 (clicked -> reject): the dialog
\* closes, nothing is written and settings_changed is not emitted
CancelSettings ==
    /\ pc = "idle"
    /\ dialog
    /\ dialog' = FALSE
    /\ event' = "settings_cancelled"
    /\ UNCHANGED <<settings, config_file, qmVars, clipVars, monVars, timers,
                   uiVars, last_pasted, tray, call, steps, writePaused, obsCur,
                   cycles, qmOnly, hkVars, triggers, failed>>

\* SettingsDialog._reset_defaults, lines 295-298: Settings.reset, no
\* settings_changed
ResetDefaults ==
    /\ pc = "idle"
    /\ dialog
    /\ settings' = DEFAULT_SETTINGS
    /\ config_file' = SettingsSave(settings')
    /\ event' = "settings_reset"
    /\ UNCHANGED <<dialog, qmVars, clipVars, monVars, timers, uiVars, last_pasted, tray,
                   call,
                   steps, writePaused, obsCur, cycles, qmOnly, hkVars, triggers,
                   failed>>

\* as OnDelimiterChanged, but the lines queued under the old delimiter are
\* dropped
OnDelimiterChangedClears(d) ==
    /\ pc = "idle"
    /\ settings' = DictSet(settings, "delimiter", d)
    /\ config_file' = SettingsSave(settings')
    /\ delimiter' = SetDelimiter(DelimiterFromSettings(settings'))
    /\ queue' = <<>>
    /\ original_queue' = <<>>
    /\ call' = [NoCall EXCEPT !.op = "set_delimiter"]
    /\ event' = "delimiter_changed"
    /\ UNCHANGED <<dialog, loop_mode, clipVars, monVars, timers, uiVars,
                   last_pasted, tray, steps, writePaused, obsCur, cycles, qmOnly,
                   hkVars, triggers, failed>>

\* _on_delimiter_changed, main.py lines 205-209, on a name of the tray menu
OnDelimiterChanged(d) ==
    /\ pc = "idle"
    /\ settings' = DictSet(settings, "delimiter", d)
    /\ config_file' = SettingsSave(settings')
    /\ delimiter' = SetDelimiter(DelimiterFromSettings(settings'))
    /\ call' = [NoCall EXCEPT !.op = "set_delimiter"]
    /\ event' = "delimiter_changed"
    /\ UNCHANGED <<dialog, queue, original_queue, loop_mode, clipVars, monVars,
                   timers,
                   uiVars, last_pasted, tray, steps, writePaused, obsCur, cycles,
                   qmOnly, hkVars, triggers, failed>>

InitCfg == InitWithFile(CfgFiles)

NextCfg ==
    \/ \E text \in CfgTexts : ExternalCopy(text)
    \/ DataChanged
    \/ \E d \in DialogDelimiters, custom \in CustomDelimiters,
          loop \in BOOLEAN, ml \in 1..2 : SaveSettings(d, custom, loop, ml)
    \/ ShowSettings
    \/ CancelSettings
    \/ ResetDefaults
    \/ \E d \in TrayDelimiters : OnDelimiterChanged(d)
    \/ \E value \in BOOLEAN : OnLoopModeToggled(value)

SpecCfg == InitCfg /\ [][NextCfg]_vars

\* ------------------------------------------------- the hotkey handler alone
\* The listener thread on a keyboard with modifier and character keys, for
\* several hotkey combinations; the UI thread takes the queued triggers, the
\* queue being empty.

\* the keys of the keyboard
AllKeys == {KeyF9, KeyCtrl, KeyCtrlL, KeyShiftR, KeyV, KeyUpperV}

\* the combinations handed to set_hotkey
HotkeyCombinations == {{KeyF9}, {KeyCtrl, KeyV}, {KeyCtrlL, KeyUpperV}}

\* the enabled setter, lines 86-89
SetEnabled(value) ==
    /\ enabled' = value
    /\ event' = "set_enabled"
    /\ UNCHANGED <<qmVars, clipVars, monVars, timers, uiVars, last_pasted, tray, call,
                   steps, writePaused, obsCur, cycles, qmOnly, current_keys,
                   hotkey_combination, keyboard, last_press, released, triggers,
                   cfgVars, failed>>

InitHK ==
    /\ InitFrom(NoFile)
    /\ hotkey_combination \in HotkeyCombinations
    /\ keyboard = AllKeys
    /\ procs = [p \in Procs |-> IF p = 1 THEN Running ELSE NotLaunched]
    /\ lock_file = 1
    /\ Listening
    /\ arg_text = <<>>
    /\ arg_delim = None

NextHK ==
    \/ \E key \in keyboard : OnPress(key)
    \/ \E key \in keyboard : OnRelease(key)
    \/ \E value \in BOOLEAN : SetEnabled(value)
    \/ PasteBegin(TRUE)

SpecHK == InitHK /\ [][NextHK]_vars

\* ------------------------------------------------------------ the launch
\* Several processes are started; lock_file is the process whose QLockFile
\* holds queueclip.lock, 0 when none does. A QLockFile lets one process at a
\* time hold the lock and gives it up when its owner is destroyed.

\* main, lines 269-276: QueueClipApp() and init()
Main(p) ==
    /\ procs[p].pc = "main"
    /\ procs' = [procs EXCEPT ![p].pc = "init"]
    /\ UNCHANGED <<lock_file, qmVars, clipVars, monVars, timers, uiVars,
                   last_pasted, tray, obsVars, argVars, hkVars, triggers, cfgVars, thrVars>>

\* mutant: run does not look at the lock
RunWithoutLock(p) ==
    /\ procs[p].pc = "init"
    /\ procs' = [procs EXCEPT ![p] = [pc |-> "exec", listener |-> TRUE, ret |-> 0]]
    /\ UNCHANGED <<lock_file, qmVars, clipVars, monVars, timers, uiVars,
                   last_pasted, tray, obsVars, argVars, hkVars, triggers, cfgVars, thrVars>>

\* run, lines 253-266: tryLock, then either the "already running" dialog, or
\* the listener thread is started and the event loop entered
Run(p) ==
    /\ procs[p].pc = "init"
    /\ IF lock_file = 0
       THEN /\ lock_file' = p
            /\ procs' = [procs EXCEPT
                           ![p] = [pc |-> "exec", listener |-> TRUE, ret |-> 0]]
       ELSE /\ procs' = [procs EXCEPT ![p].pc = "dialog"]
            /\ UNCHANGED lock_file
    /\ UNCHANGED <<qmVars, clipVars, monVars, timers, uiVars, last_pasted, tray,
                   obsVars, argVars, hkVars, triggers, cfgVars, thrVars>>

\* run, lines 258-259: the dialog is closed, run returns 1
DialogClosed(p) ==
    /\ procs[p].pc = "dialog"
    /\ procs' = [procs EXCEPT ![p].pc = "exit", ![p].ret = 1]
    /\ UNCHANGED <<lock_file, qmVars, clipVars, monVars, timers, uiVars,
                   last_pasted, tray, obsVars, argVars, hkVars, triggers, cfgVars, thrVars>>

\* _quit, lines 241-251: the listener thread is stopped, app.quit()
Quit(p) ==
    /\ procs[p].pc = "exec"
    /\ procs' = [procs EXCEPT ![p].pc = "quit", ![p].listener = FALSE]
    /\ UNCHANGED <<lock_file, qmVars, clipVars, monVars, timers, uiVars,
                   last_pasted, tray, obsVars, argVars, hkVars, triggers, cfgVars, thrVars>>

\* run, line 266: app.exec() returns 0, run returns and its lock_file goes
ExecReturns(p) ==
    /\ procs[p].pc = "quit"
    /\ procs' = [procs EXCEPT ![p].pc = "exit", ![p].ret = 0]
    /\ lock_file' = IF lock_file = p THEN 0 ELSE lock_file
    /\ UNCHANGED <<qmVars, clipVars, monVars, timers, uiVars, last_pasted, tray,
                   obsVars, argVars, hkVars, triggers, cfgVars, thrVars>>

\* a process that ended is started again
Relaunch(p) ==
    /\ procs[p].pc = "exit"
    /\ procs' = [procs EXCEPT ![p] = NotLaunched]
    /\ UNCHANGED <<lock_file, qmVars, clipVars, monVars, timers, uiVars,
                   last_pasted, tray, obsVars, argVars, hkVars, triggers, cfgVars, thrVars>>

InitRun ==
    /\ InitFrom(NoFile)
    /\ hotkey_combination = {KeyF9}
    /\ keyboard = {KeyF9}
    /\ procs = [p \in Procs |-> NotLaunched]
    /\ lock_file = 0
    /\ Listening
    /\ arg_text = <<>>
    /\ arg_delim = None

NextRun ==
    \/ \E p \in Procs : Main(p)
    \/ \E p \in Procs : Run(p)
    \/ \E p \in Procs : DialogClosed(p)
    \/ \E p \in Procs : Quit(p)
    \/ \E p \in Procs : ExecReturns(p)
    \/ \E p \in Procs : Relaunch(p)

SpecRun == InitRun /\ [][NextRun]_vars

\* ------------------------------------------------- the listener thread
\* HotkeyHandler is a QThread: start() (main.py line 263) makes a thread that
\* calls run(); stop() is called by _quit on the UI thread (main.py line
\* 247). The two run concurrently; the pynput listener delivers key events
\* while it is started, and the UI thread handles triggers until it is in
\* stop().

\* main.py line 263, hotkey_handler.start()
Start ==
    /\ run_pc = "not_started"
    /\ run_pc' = "started"
    /\ UNCHANGED <<running, listener, stop_pc, procs, lock_file, qmVars,
                   clipVars, monVars, timers, uiVars, last_pasted, tray, obsVars,
                   argVars, hkVars, triggers, cfgVars>>

\* run, line 232: self._running = True
RunSetFlag ==
    /\ run_pc = "started"
    /\ running' = TRUE
    /\ run_pc' = "flag_set"
    /\ UNCHANGED <<listener, stop_pc, procs, lock_file, qmVars, clipVars,
                   monVars, timers, uiVars, last_pasted, tray, obsVars, argVars,
                   hkVars, triggers, cfgVars>>

\* run, lines 235-239: the listener is created and started
RunListen ==
    /\ run_pc = "flag_set"
    /\ listener' = "started"
    /\ run_pc' = "loop"
    /\ UNCHANGED <<running, stop_pc, procs, lock_file, qmVars, clipVars,
                   monVars, timers, uiVars, last_pasted, tray, obsVars, argVars,
                   hkVars, triggers, cfgVars>>

\* run, lines 242-243: the loop is left once _running is false
RunLoopExit ==
    /\ run_pc = "loop"
    /\ ~running
    /\ run_pc' = "cleanup"
    /\ UNCHANGED <<running, listener, stop_pc, procs, lock_file, qmVars,
                   clipVars, monVars, timers, uiVars, last_pasted, tray, obsVars,
                   argVars, hkVars, triggers, cfgVars>>

\* run, lines 246-247: the listener is stopped, run returns
RunCleanup ==
    /\ run_pc = "cleanup"
    /\ listener' = IF listener # "none" THEN "stopped" ELSE listener
    /\ run_pc' = "finished"
    /\ UNCHANGED <<running, stop_pc, procs, lock_file, qmVars, clipVars,
                   monVars, timers, uiVars, last_pasted, tray, obsVars, argVars,
                   hkVars, triggers, cfgVars>>

\* stop, line 251, called by _quit from the event loop, which runs once
\* start() was called: self._running = False
StopClearFlag ==
    /\ stop_pc = "idle"
    /\ pc = "idle"
    /\ run_pc # "not_started"
    /\ running' = FALSE
    /\ stop_pc' = "flag_cleared"
    /\ UNCHANGED <<listener, run_pc, procs, lock_file, qmVars, clipVars,
                   monVars, timers, uiVars, last_pasted, tray, obsVars, argVars,
                   hkVars, triggers, cfgVars>>

\* stop, lines 252-253: the listener, if there is one, is stopped
StopListener ==
    /\ stop_pc = "flag_cleared"
    /\ listener' = IF listener # "none" THEN "stopped" ELSE listener
    /\ stop_pc' = "waiting"
    /\ UNCHANGED <<running, run_pc, procs, lock_file, qmVars, clipVars,
                   monVars, timers, uiVars, last_pasted, tray, obsVars, argVars,
                   hkVars, triggers, cfgVars>>

\* stop, line 254: self.wait() returns when run() has returned
StopWait ==
    /\ stop_pc = "waiting"
    /\ run_pc = "finished"
    /\ stop_pc' = "returned"
    /\ UNCHANGED <<running, listener, run_pc, procs, lock_file, qmVars,
                   clipVars, monVars, timers, uiVars, last_pasted, tray, obsVars,
                   argVars, hkVars, triggers, cfgVars>>

InitStop ==
    /\ InitFrom(NoFile)
    /\ hotkey_combination = {KeyF9}
    /\ keyboard = {KeyF9, KeyCtrl}
    /\ procs = [p \in Procs |-> IF p = 1 THEN Running ELSE NotLaunched]
    /\ lock_file = 1
    /\ running = FALSE
    /\ listener = "none"
    /\ run_pc = "not_started"
    /\ stop_pc = "idle"
    /\ arg_text = <<>>
    /\ arg_delim = None

NextStop ==
    \/ Start
    \/ RunSetFlag
    \/ RunListen
    \/ RunLoopExit
    \/ RunCleanup
    \/ StopClearFlag
    \/ StopListener
    \/ StopWait
    \/ \E key \in keyboard : listener = "started" /\ OnPress(key)
    \/ \E key \in keyboard : listener = "started" /\ OnRelease(key)
    \/ stop_pc = "idle" /\ PasteBegin(TRUE)

\* both threads are scheduled: every step of run() and of stop() that can be
\* taken is taken
FairnessStop ==
    /\ WF_vars(RunSetFlag)
    /\ WF_vars(RunListen)
    /\ WF_vars(RunLoopExit)
    /\ WF_vars(RunCleanup)
    /\ WF_vars(StopListener)
    /\ WF_vars(StopWait)

SpecStop == InitStop /\ [][NextStop]_vars /\ FairnessStop

\* ------------------------------------------------------------ properties

\* a step of the UI thread from one place of a handler to another
Step(from, to) == pc = from /\ pc' = to

\* C1: when the delayed restore check runs, it reads the clipboard as it is
\* at that moment; the application then writes the clipboard if and only if
\* that content equals the queue line of the cycle, and when it writes, the
\* clipboard and the monitor's last-seen content both become the value saved
\* at the start of the cycle.
C1_RestoreIffStillLine ==
    [][/\ Step("idle", "checked") => current_clip' = clipboard
       /\ Step("checked", "idle") =>
            /\ (event' = "restore_write") <=> (current_clip = current_line)
            /\ event' = "restore_write" =>
                 /\ clipboard' = original_clipboard
                 /\ last_content' = original_clipboard
            /\ event' # "restore_write" => clipboard' = clipboard]_vars

C1_Witness ==
    /\ event = "restore_write"
    /\ clipboard = <<"a", "\n", "b">>
    /\ last_content = clipboard

\* C2 as claimed: no restore write happens after an external clipboard write
\* made between the queue-line write and the restore check.
C2_NoRestoreAfterExternalWrite == event = "restore_write" => ~extCur

\* C2 as amended: in a cycle with an external clipboard write between the
\* queue-line write and the restore check, the restore write happens exactly
\* when the content read at the check equals the queue line again; it never
\* happens over a content that differs from the queue line.
C2_RestoreAfterExternalOnlyIfSameText ==
    [][(Step("checked", "idle") /\ extCur) =>
          ((event' = "restore_write") <=> (current_clip = current_line))]_vars

C2_Witness == event = "restore_write" /\ extCur

\* C3 as claimed: if the restore check of a cycle finds a content other than
\* the cycle's queue line, the monitor has emitted no content_detected for
\* that content since the cycle's queue-line write: the external copy did
\* not load the queue.
C3_ExternalCopyNeverLoaded == event = "restore_skip" => detCur # last_content

\* C3, the restore step on its own: if the content read at the restore check
\* differs from the cycle's queue line, the step writes nothing to the
\* clipboard, sets the monitor's last-seen content to the content read,
\* emits no content_detected and leaves queue and snapshot alone; and the
\* monitor never emits content_detected for a text equal to its last-seen
\* content.
C3_SkipAdoptsExternalValue ==
    [][/\ (Step("checked", "idle") /\ current_clip # current_line) =>
            /\ clipboard' = clipboard
            /\ notify' = notify
            /\ last_content' = current_clip
            /\ event' = "restore_skip"
            /\ queue' = queue
            /\ original_queue' = original_queue
       /\ event' = "content_detected" =>
            /\ clipboard # last_content
            /\ queue' = SplitLines(clipboard, delimiter)]_vars

C3_Witness ==
    /\ event = "restore_skip"
    /\ last_content = <<"a", "\n", "b">>
    /\ clipboard = last_content
    /\ notify
    /\ queue = <<>>

\* the statements of one paste cycle, in the order of the claim
CycleOrder ==
    <<"save", "pause", "write", "paste", "pop", "schedule", "restore_check">>

\* C4: the statements of a paste cycle run in the order save, pause, write,
\* paste, pop, schedule, restore check; until the paste keystroke is sent the
\* line is still at the head of the queue, and a cycle has a pending timer
\* only once its line was popped.
C4_CycleOrder ==
    /\ steps = SubSeq(CycleOrder, 1, Len(steps))
    /\ pc \in {"saved", "written"} => PeekNext(queue) = current_line
    /\ \A i \in DOMAIN cycles : cycles[i].steps = SubSeq(CycleOrder, 1, 6)
    /\ Len(cycles) = Len(timers)

C4_Witness == steps = CycleOrder /\ pc = "checked" /\ queue # <<>>

\* C5 as claimed: every clipboard write the application makes happens while
\* the monitor is paused.
C5_AppWritesWhilePaused == writePaused

\* C6 as claimed: with loop mode on and a non-empty snapshot no hotkey
\* trigger is left without a paste (a drained queue is reloaded).
C6_LoopNeverIgnoresTrigger ==
    (loop_mode /\ original_queue # <<>>) => event # "paste_ignored"

\* C7: pop_next on an empty queue with loop mode off returns None, emits
\* queue_empty and nothing else, and leaves queue and snapshot as they were.
C7_PopEmptyNoLoop ==
    [][(call'.op = "pop_next" /\ queue = <<>> /\ ~loop_mode) =>
          /\ call'.ret = None
          /\ call'.emitted = <<"queue_empty">>
          /\ queue' = <<>>
          /\ original_queue' = original_queue]_vars

C7_Witness ==
    /\ call.op = "pop_next"
    /\ call.ret = None
    /\ ~loop_mode
    /\ queue = <<>>
    /\ Len(original_queue) = 2
    /\ pops = 3

\* C8: pop_next on an empty queue with loop mode on and a non-empty snapshot
\* returns the snapshot's first line and leaves the rest of the snapshot
\* queued in order, the snapshot unchanged.
C8_PopEmptyLoopReloads ==
    [][(call'.op = "pop_next" /\ queue = <<>> /\ loop_mode
            /\ original_queue # <<>>) =>
          /\ call'.ret = original_queue[1]
          /\ queue' = SubSeq(original_queue, 2, Len(original_queue))
          /\ original_queue' = original_queue]_vars

C8_Witness ==
    /\ call.op = "pop_next"
    /\ loop_mode
    /\ call.emitted = <<"queue_changed", "line_pasted", "queue_changed">>
    /\ Len(original_queue) = 2
    /\ original_queue[1] # original_queue[2]
    /\ call.ret = original_queue[1]
    /\ queue = <<original_queue[2]>>

RECURSIVE Join(_, _)
\* the segments put together again with sep between them
Join(segs, sep) ==
    IF Len(segs) = 1 THEN segs[1] ELSE segs[1] \o sep \o Join(Tail(segs), sep)

\* segs are the segments of s split on sep: together with the separators
\* they give s back, each separator is the first one after the segment
\* before it, and none is left in the last segment
IsSplitOf(segs, s, sep) ==
    /\ Len(segs) >= 1
    /\ Join(segs, sep) = s
    /\ \A i \in 1..(Len(segs) - 1) :
          LET u == segs[i] \o sep IN ~Occurs(sep, SubSeq(u, 1, Len(u) - 1))
    /\ ~Occurs(sep, segs[Len(segs)])

\* t is s without its surrounding whitespace
IsStripOf(t, s) ==
    \E i, j \in 0..Len(s) :
        /\ i + j <= Len(s)
        /\ t = SubSeq(s, i + 1, Len(s) - j)
        /\ \A k \in 1..i : s[k] \in Whitespace
        /\ \A k \in (Len(s) - j + 1)..Len(s) : s[k] \in Whitespace
        /\ t # <<>> => (t[1] \notin Whitespace /\ t[Len(t)] \notin Whitespace)

\* the segments that are not empty after stripping
Kept(segs) ==
    {i \in 1..Len(segs) : \E k \in 1..Len(segs[i]) : segs[i][k] \notin Whitespace}

\* C9: after load_text of a text under delimiter D the queue holds, in their
\* order, the segments of the text split on D that are not empty after
\* stripping, each stripped, and the call returns their number.
C9_LoadSplitsStripsFilters ==
    call.op = "load_text" =>
        LET segs == PySplit(call.text, call.delim)
            K == Kept(segs)
        IN  /\ IsSplitOf(segs, call.text, call.delim)
            /\ Len(queue) = Cardinality(K)
            /\ \A i \in K :
                  IsStripOf(queue[Cardinality({j \in K : j <= i})], segs[i])
            /\ call.count = Len(queue)

C9_Witness ==
    /\ call.op = "load_text"
    /\ call.text = <<"\r", "\n", "a">>
    /\ call.delim = DELIMITER_NEWLINE
    /\ queue = << <<"a">> >>

\* C10: with loop mode off, the k-th pop_next after a load returns the k-th
\* loaded line, and None once all were returned; each pop returns what
\* peek_next shows before it, and peek_next removes nothing.
C10_PopOrderIsFifo ==
    [][/\ (call'.op = "pop_next" /\ loopFree') =>
            /\ call'.ret = IF pops < Len(original_queue)
                           THEN original_queue[pops + 1] ELSE None
            /\ call'.ret = IF queue = <<>> THEN None ELSE queue[1]
       /\ call'.op = "peek_next" =>
            /\ call'.ret = IF queue = <<>> THEN None ELSE queue[1]
            /\ queue' = queue]_vars

C10_Witness ==
    /\ call.op = "pop_next"
    /\ loopFree
    /\ pops = 3
    /\ call.ret = None
    /\ Len(original_queue) = 2
    /\ original_queue[1] # original_queue[2]

\* C11: in every state reached by load, pop, clear and loop-mode toggles the
\* live queue holds at most as many lines as the snapshot.
C11_RemainingAtMostTotal == GetCount(queue) <= GetTotal(original_queue)

C11_Witness ==
    /\ call.op = "set_loop_mode"
    /\ ~loop_mode
    /\ ~loopFree
    /\ GetCount(queue) = 1
    /\ GetTotal(original_queue) = 2

\* C12: get_current_position returns total - remaining + 1 when the snapshot
\* is not empty and 0 when it is, remaining being the live queue's length.
C12_PositionFormula ==
    call.op = "get_current_position" =>
        LET total == Len(original_queue)
            remaining == Len(queue)
        IN  /\ total > 0 => call.pos = total - remaining + 1
            /\ total = 0 => call.pos = 0

C12_Witness ==
    /\ call.op = "get_current_position"
    /\ Len(original_queue) = 2
    /\ Len(queue) = 0
    /\ call.pos = 3

\* C13: clear empties the live queue and the snapshot: right after it the
\* queue is empty, total and position are 0, and as long as nothing is loaded
\* pop_next returns None and leaves both empty, with loop mode on as well.
C13_ClearEmptiesBoth ==
    [][/\ call'.op = "clear" =>
            /\ queue' = <<>>
            /\ GetTotal(original_queue') = 0
            /\ GetCurrentPosition(queue', original_queue') = 0
       /\ (call'.op = "pop_next" /\ dropped > 0) =>
            /\ call'.ret = None
            /\ queue' = <<>>
            /\ original_queue' = <<>>]_vars

C13_Witness ==
    /\ call.op = "pop_next"
    /\ loop_mode
    /\ dropped = 2
    /\ call.ret = None
    /\ queue = <<>>

\* C14 as claimed, for the setting 'custom': a captured text is split on the
\* custom delimiter string of the settings.
C14_CustomSplitsOnCustomDelimiter ==
    [][(event' = "content_detected" /\ settings["delimiter"] = "custom") =>
          queue' = SplitLines(clipboard, settings["custom_delimiter"])]_vars

\* C18: after Settings.load every default key is present, a key of the
\* file's object has the file's value, a key the file lacks has its default,
\* and with the file missing, unreadable or unparsable the settings are the
\* defaults.
C18_LoadMergesOverDefaults ==
    event \in {"init", "settings_load"} =>
        /\ DOMAIN DEFAULT_SETTINGS \subseteq DOMAIN settings
        /\ (config_file.exists /\ config_file.valid) =>
              /\ \A k \in DOMAIN config_file.content :
                    k \in DOMAIN settings /\ settings[k] = config_file.content[k]
              /\ \A k \in (DOMAIN DEFAULT_SETTINGS) \ (DOMAIN config_file.content) :
                    settings[k] = DEFAULT_SETTINGS[k]
        /\ ~(config_file.exists /\ config_file.valid) =>
              /\ DOMAIN settings = DOMAIN DEFAULT_SETTINGS
              /\ \A k \in DOMAIN settings : settings[k] = DEFAULT_SETTINGS[k]

C18_Witness ==
    /\ event = "settings_load"
    /\ config_file.valid
    /\ DOMAIN config_file.content = {"delimiter", "min_lines"}
    /\ settings["delimiter"] = "comma"
    /\ settings["min_lines"] = 1
    /\ settings["paste_delay"] = 350
    /\ ~settings["loop_mode"]

\* C15: a step of the keyboard listener thread changes nothing of the queue,
\* the snapshot, the clipboard, the monitor, the timers or a handler's
\* locals, it only queues paste_triggered; the UI thread starts a paste
\* handler only when no handler is running, one queued trigger each, and
\* while a paste handler runs the UI thread takes no step but that handler's.
C15_MutationOnUiThreadOnly ==
    [][/\ event' \in {"key_press", "key_release"} =>
            /\ UNCHANGED <<qmVars, clipVars, monVars, timers, uiVars, last_pasted, tray>>
            /\ triggers' \in {triggers, triggers + 1}
       /\ event' \in {"paste_triggered", "paste_ignored"} =>
            /\ pc = "idle"
            /\ triggers' = triggers - 1
       /\ pc \in {"saved", "written", "pasted"} =>
            \/ event' \in {"key_press", "key_release", "external_copy"}
            \/ pc' # pc]_vars

C15_Witness ==
    /\ event = "key_press"
    /\ pc = "written"
    /\ triggers = 1
    /\ Len(timers) = 1

\* C16 as claimed, no operation is retried: every statement of a paste cycle
\* is attempted once, in the order of the cycle.
C16_NothingRetried == steps = SubSeq(CycleOrder, 1, Len(steps))

\* the statements without the second attempt at the paste keystroke
WithoutFallback(s) ==
    IF Len(s) >= 5 /\ s[4] = "paste" /\ s[5] = "paste"
    THEN SubSeq(s, 1, 4) \o SubSeq(s, 6, Len(s))
    ELSE s

\* C16 as amended: a failed clipboard read gives the empty string, a failed
\* clipboard write returns False and leaves the clipboard, and whichever of
\* the read, the write, the keystroke, the restore's read and the restore's
\* write fail, the statements of the cycle run in their order, once each
\* except for a second attempt at the keystroke exactly when the xdotool
\* call failed, the line is popped once and its timer set, and when no
\* handler runs and no timer is pending the monitor is not paused and is
\* connected.
C16_FailuresAreAbsorbed ==
    [][/\ (Step("idle", "saved") /\ "read" \in failed') =>
            original_clipboard' = <<>>
       /\ (Step("saved", "written") /\ "write" \in failed') =>
            /\ clipboard' = clipboard
            /\ ~SetClipboard(FALSE, clipboard, current_line).ret
       /\ (Step("idle", "checked") /\ "restore_read" \in failed') =>
            current_clip' = <<>>
       /\ (Step("checked", "idle") /\ "restore_write" \in failed') =>
            clipboard' = clipboard
       /\ Step("pasted", "idle") =>
            /\ call'.op = "pop_next"
            /\ call'.ret = current_line
            /\ Len(timers') = Len(timers) + 1
       /\ WithoutFallback(steps') = SubSeq(CycleOrder, 1, Len(WithoutFallback(steps')))
       /\ (steps' # WithoutFallback(steps')) <=>
             (Len(steps') >= 5 /\ "xdotool" \in failed')
       /\ (pc' = "idle" /\ timers' = <<>>) => (~paused' /\ connections' = 1)]_vars

C16_Witness ==
    /\ event = "restore_skip"
    /\ failed = {"read", "write", "xdotool", "paste", "restore_read"}
    /\ pc = "idle"
    /\ timers = <<>>
    /\ ~paused
    /\ steps = <<"save", "pause", "write", "paste", "paste", "pop", "schedule",
                 "restore_check">>

\* C17: a process whose run finds the lock held shows the dialog and then
\* returns 1, with no listener thread started and without entering the event
\* loop of run; at no time do two processes have a running listener thread,
\* and a process with a running listener holds the lock.
C17_LockFailureAbortsLaunch ==
    [][/\ \A p \in Procs :
             /\ (procs[p].pc = "init" /\ procs'[p].pc # "init" /\ lock_file # 0) =>
                   /\ procs'[p] = [pc |-> "dialog", listener |-> FALSE, ret |-> 0]
                   /\ lock_file' = lock_file
             /\ (procs[p].pc = "dialog" /\ procs'[p].pc # "dialog") =>
                   /\ procs'[p] = [pc |-> "exit", listener |-> FALSE, ret |-> 1]
                   /\ lock_file' = lock_file
       /\ Cardinality({p \in Procs : procs'[p].listener}) <= 1
       /\ \A p \in Procs : procs'[p].listener => lock_file' = p]_vars

C17_Witness ==
    \E p, q \in Procs :
        /\ procs[p].pc = "exec"
        /\ procs[p].listener
        /\ procs[q] = [pc |-> "exit", listener |-> FALSE, ret |-> 1]

\* the modifier a key is a variant of, "none" for the other keys
ModifierOf(key) ==
    IF key \in {KeyCtrl, KeyCtrlL} THEN "ctrl"
    ELSE IF key = KeyShiftR THEN "shift"
    ELSE "none"

\* the letter of a character key without its case, "none" for the other keys
LetterOf(key) == IF key \in {KeyV, KeyUpperV} THEN "v" ELSE "none"

\* a key of the combination is matched by a pressed key
Matched(hk, ck) ==
    \/ hk = ck
    \/ ModifierOf(hk) # "none" /\ ModifierOf(hk) = ModifierOf(ck)
    \/ LetterOf(hk) # "none" /\ LetterOf(hk) = LetterOf(ck)

C20_PauseLeadsToResume == paused ~> ~paused

C20_Witness ==
    /\ event = "restore_write"
    /\ "restore_write" \in failed
    /\ writePaused
    /\ ~paused

\* the events of a paste cycle, from the trigger to the end of the restore
CycleEvents ==
    {"paste_triggered", "paste_write", "paste_simulate", "paste_finish",
     "restore_check", "restore_write", "restore_skip"}

C22_ClipboardRestoredAfterCycles ==
    (pc = "idle" /\ timers = <<>> /\ ~burst.ext) => clipboard = burst.clip

\* C23: a hotkey trigger handled with a non-empty queue starts a cycle for
\* the head of the queue; the cycle writes that line to the clipboard and its
\* pop_next removes and returns that same line: the remaining count goes down
\* by exactly one and the snapshot is unchanged.
C23_WrittenLineIsPoppedLine ==
    [][/\ (triggers' = triggers - 1 /\ queue # <<>>) =>
            /\ pc' = "saved"
            /\ current_line' = Head(queue)
       /\ Step("saved", "written") => clipboard' = current_line
       /\ Step("pasted", "idle") =>
            /\ call'.op = "pop_next"
            /\ call'.ret = current_line
            /\ queue = <<current_line>> \o queue'
            /\ GetCount(queue') = GetCount(queue) - 1
            /\ original_queue' = original_queue]_vars

C23_Witness ==
    /\ event = "paste_finish"
    /\ call.ret = <<"b">>
    /\ last_pasted = <<"b">>
    /\ queue = <<>>
    /\ original_queue = << <<"a">>, <<"b">> >>

\* C24 as claimed: pop_next is called in a cycle only if the clipboard write
\* of the cycle's line succeeded.
C24_PopOnlyAfterSuccessfulWrite ==
    [][event' = "paste_finish" => "write" \notin failed]_vars

C26_EmitsIffNewAndLongEnough ==
    [][event' \in {"content_detected", "data_changed"} =>
          LET fresh == ~paused /\ clipboard # <<>> /\ clipboard # last_content
              lines == Len(SelectSeq(clipboard, LAMBDA c : c = "\n")) + 1
          IN  /\ (event' = "content_detected") <=> (fresh /\ lines >= min_lines)
              /\ last_content' = IF fresh THEN clipboard ELSE last_content
              /\ event' = "content_detected" =>
                    queue' = SplitLines(clipboard, delimiter)
              /\ event' = "data_changed" => UNCHANGED qmVars]_vars

C26_Witness ==
    /\ event = "data_changed"
    /\ clipboard = <<"a">>
    /\ last_content = <<"a">>
    /\ ~paused
    /\ original_queue = <<>>
    /\ last_pasted = None

\* C27: load_text replaces what was queued: whatever the queue and the
\* snapshot held before, after the call the queue is exactly the lines split
\* from the new text, the snapshot equals the queue (remaining = total) and
\* the call returns their number.
C27_LoadReplaces ==
    [][call'.op = "load_text" =>
          /\ queue' = SplitLines(call'.text, delimiter')
          /\ original_queue' = queue'
          /\ GetCount(queue') = GetTotal(original_queue')
          /\ call'.count = Len(queue')]_vars

C27_Witness ==
    /\ call.op = "load_text"
    /\ call.prev = 2
    /\ queue = << <<"a", ",", "a">> >>
    /\ original_queue = queue

\* C28 as claimed: every QueueManager operation that takes the live queue
\* from non-empty to empty emits queue_empty.
C28_QueueEmptyWhenQueueBecomesEmpty ==
    [][(queue # <<>> /\ queue' = <<>>) =>
          \E i \in DOMAIN call'.emitted : call'.emitted[i] = "queue_empty"]_vars

\* C29 as claimed: after a paste_triggered emission no press event emits
\* again until a key of the hotkey combination has been released.
C29_OneTriggerPerHold ==
    [][(event' = "key_press" /\ triggers' = triggers + 1) => released]_vars

\* C30 as claimed: once stop() has set the running flag to false, stop()
\* returns with the listener thread finished, whenever stop() is called
\* after start().
C30_StopTerminates ==
    (stop_pc = "flag_cleared") ~> (stop_pc = "returned" /\ run_pc = "finished")

\* C31: between user actions the live components agree with the persisted
\* settings: the queue manager's loop mode equals the settings' loop_mode and
\* the monitor's min_lines equals the settings' min_lines
C31_LiveComponentsAgreeWithSettings ==
    (pc = "idle" /\ ~dialog) =>
        /\ loop_mode = settings["loop_mode"]
        /\ min_lines = settings["min_lines"]

\* C32: a step that changes the delimiter (tray menu or saved dialog) or
\* toggles loop mode leaves the live queue and the snapshot as they were, and
\* the load that follows a delimiter change splits by the delimiter that was
\* chosen
C32_DelimiterAndLoopChangesKeepQueue ==
    [][/\ event' \in {"delimiter_changed", "loop_mode_toggled",
                      "settings_saved"}
          => /\ queue' = queue
             /\ original_queue' = original_queue
       /\ (event \in {"delimiter_changed", "settings_saved"}
             /\ event' = "content_detected")
          => /\ queue' =
                  LoadText(clipboard, DelimiterFromSettings(settings)).queue
             /\ original_queue' = queue']_vars

C32_Witness ==
    /\ event = "delimiter_changed"
    /\ delimiter = DELIMITER_COMMA
    /\ queue = << <<"a", ",", "b">>, <<"c">> >>
    /\ original_queue = queue

\* C33: whenever the queue is non-empty the tray shows a status whose
\* position lies in 1..total and whose remaining figure, total - current + 1,
\* is the length of the live queue; a status is shown only in such states,
\* and the empty state is shown whenever the queue has no next line
C33_StatusShownIffQueueNonEmpty ==
    /\ queue # <<>> =>
          /\ tray.shown = "status"
          /\ tray.current = GetCurrentPosition(queue, original_queue)
          /\ tray.total = GetTotal(original_queue)
          /\ tray.current \in 1..tray.total
          /\ tray.total - tray.current + 1 = GetCount(queue)
          /\ tray.remaining = GetCount(queue)
    /\ tray.shown = "status" => queue # <<>>
    /\ PeekNext(queue) = None => tray = TrayEmpty

\* the second of two lines is next: position 2 of 2, one line remaining
C33_Witness ==
    /\ queue = << <<"b">> >>
    /\ original_queue = << <<"a">>, <<"b">> >>
    /\ tray = [shown |-> "status", current |-> 2, total |-> 2, remaining |-> 1]

\* ------------------------------------------------- the monitor on its own
\* pause and resume called in any order on a running monitor, between the
\* copies of other applications and the deliveries of dataChanged.

\* ClipboardMonitor.pause, lines 43-52
MonPause ==
    /\ pc = "idle"
    /\ paused' = Pause(paused, connections).paused
    /\ connections' = Pause(paused, connections).connections
    /\ event' = "pause"
    /\ UNCHANGED <<qmVars, clipVars, last_content, min_lines, timers, uiVars,
                   last_pasted, tray, call, steps, writePaused, obsCur, cycles,
                   qmOnly, hkVars, triggers, cfgVars, failed>>

\* ClipboardMonitor.resume, lines 54-63
MonResume ==
    /\ pc = "idle"
    /\ paused' = Resume(paused, connections).paused
    /\ connections' = Resume(paused, connections).connections
    /\ event' = "resume"
    /\ UNCHANGED <<qmVars, clipVars, last_content, min_lines, timers, uiVars,
                   last_pasted, tray, call, steps, writePaused, obsCur, cycles,
                   qmOnly, hkVars, triggers, cfgVars, failed>>

\* the texts copied in SpecMon
MonTexts == {<<"a">>, <<"a", "\n", "b">>, <<"b", "\n", "a">>}

NextMon ==
    \/ \E text \in MonTexts : ExternalCopy(text)
    \/ DataChanged
    \/ MonPause
    \/ MonResume

SpecMon == Init /\ [][NextMon]_vars

\* C34: after any sequence of pause and resume calls the handler is connected
\* to the clipboard-changed signal at most once, and exactly when the monitor
\* is not paused; a pause of a paused monitor and a resume of a running one
\* change nothing
C34_ConnectedIffNotPaused ==
    /\ [](connections \in {0, 1} /\ (connections = 1 <=> ~paused))
    /\ [][/\ event' = "pause" => (paused' /\ (paused => UNCHANGED monVars))
          /\ event' = "resume" => (~paused' /\ (~paused => UNCHANGED monVars))
         ]_vars

\* paused and disconnected: a copy made and delivered meanwhile went unseen
C34_Witness ==
    /\ event = "pause"
    /\ paused
    /\ connections = 0
    /\ last_content = <<"a", "\n", "b">>
    /\ clipboard = <<"b", "\n", "a">>
    /\ ~notify

\* C35: after set(k, v) has written the file, a load of the file gives v for
\* k and, for every other key, the value the settings held before the call;
\* after reset a load of the file gives exactly the defaults
C35_SetAndResetPersist ==
    [][/\ (event' = "settings_set" /\ call'.op = "set") =>
             LET k == call'.text[1]
                 loaded == SettingsLoad(config_file')
             IN  /\ k \in DOMAIN loaded
                 /\ loaded[k] = call'.ret[1]
                 /\ \A j \in (DOMAIN settings) \ {k} :
                        j \in DOMAIN loaded /\ loaded[j] = settings[j]
                 /\ DOMAIN loaded = (DOMAIN settings) \cup {k}
       /\ event' = "settings_reset" =>
             SettingsLoad(config_file') = DEFAULT_SETTINGS]_vars

\* min_lines set to 1 after the delimiter was set to comma: the file holds
\* both, and the other keys as before
C35_Witness ==
    /\ event = "settings_set"
    /\ call.op = "set"
    /\ call.text = <<"min_lines">>
    /\ SettingsLoad(config_file)["min_lines"] = 1
    /\ SettingsLoad(config_file)["delimiter"] = "comma"
    /\ SettingsLoad(config_file)["paste_delay"] = 350

====
